---- MODULE Spec2Model ----
(***************************************************************************)
(* A model of analytics-generator.py: the synthetic analytics generator    *)
(* (user profiles -> sessions -> page-view / conversion events) and the    *)
(* aggregation pipeline that follows it (calculated fields, daily per-user *)
(* metrics, per-session metrics).                                          *)
(*                                                                         *)
(* Time is counted in whole minutes since 1970-01-01 00:00.  Every offset  *)
(* the program adds to datetime.now() is a whole number of minutes, so the *)
(* sub-minute part of "now" is the same in every timestamp and is dropped. *)
(*                                                                         *)
(* The pseudo-random generators (random, numpy.random) are modelled by     *)
(* their draws: each action that draws takes its values from the draw's    *)
(* range and writes them to the tape, the stream that the seed fixes.  A   *)
(* process started again with the same seed reads the same tape.           *)
(***************************************************************************)
EXTENDS Integers, Sequences, FiniteSets, TLC

VARIABLES
    now,              \* datetime.now() of this process
    num_users,        \* argument num_users
    days,             \* argument days
    pc,               \* position in the script
    users,            \* list users
    events,           \* list events
    start_date,       \* start_date
    u,                \* index of `user` in `for user in users`
    day,              \* loop variable day
    num_sessions,     \* num_sessions of the current day
    session,          \* loop variable session
    session_id,       \* session_id of the current session
    session_start,    \* session_start
    session_duration, \* session_duration
    num_pages,        \* num_pages
    page_num,         \* loop variable page_num
    df,               \* the DataFrame df
    daily_metrics,    \* the DataFrame daily_metrics
    session_metrics,  \* the DataFrame session_metrics
    tape,             \* draws made since the generators were seeded
    pos,              \* number of the next draw of this process
    varied,           \* draws of this process that left the base value
    run,              \* 1: first generation, 2: the one it is compared with
    first_events      \* the events of the first generation

vars == <<now, num_users, days, pc, users, events, start_date, u, day,
          num_sessions, session, session_id, session_start, session_duration,
          num_pages, page_num, df, daily_metrics, session_metrics,
          tape, pos, varied, run, first_events>>

loopvars == <<u, day, num_sessions, session, session_id, session_start,
              session_duration, num_pages, page_num>>

tables == <<df, daily_metrics, session_metrics>>

(***************************************************************************)
(* Bounds of the exploration.                                              *)
(***************************************************************************)
MaxUsers == 2
MaxDays == 2
\* TLC follows every run in which at most MaxVaried draws differ from the
\* first value of their range.
MaxVaried == 1

(***************************************************************************)
(* Time and text.                                                          *)
(***************************************************************************)
MinutesPerDay == 24 * 60

\* datetime.now() when the script starts: 2024-03-01 12:30
StartNows == {19783 * MinutesPerDay + 750}
\* datetime.now() when it is started again: the same minute, or 2024-03-02 00:00
RestartNows == StartNows \cup {19784 * MinutesPerDay}

\* timedelta(days=d, hours=h, minutes=m) in minutes
timedelta(d, h, m) == d * MinutesPerDay + h * 60 + m

\* .dt.date: the calendar day (days since 1970-01-01) of a timestamp
DateOf(t) == t \div MinutesPerDay

\* .dt.hour
HourOf(t) == (t % MinutesPerDay) \div 60

\* .dt.dayofweek, Monday = 0 (1970-01-01 was a Thursday)
DayOfWeek(t) == (DateOf(t) + 3) % 7

\* .dt.day_name()
DayName(t) ==
    <<"Monday", "Tuesday", "Wednesday", "Thursday", "Friday", "Saturday",
      "Sunday">>[DayOfWeek(t) + 1]

\* the proleptic Gregorian <<year, month, day>> of a calendar day
Civil(z0) ==
    LET z   == z0 + 719468
        era == z \div 146097
        doe == z - era * 146097
        yoe == (doe - doe \div 1460 + doe \div 36524 - doe \div 146096) \div 365
        doy == doe - (365 * yoe + yoe \div 4 - yoe \div 100)
        mp  == (5 * doy + 2) \div 153
        d   == doy - (153 * mp + 2) \div 5 + 1
        m   == IF mp < 10 THEN mp + 3 ELSE mp - 9
        y   == yoe + era * 400 + (IF m <= 2 THEN 1 ELSE 0)
    IN  <<y, m, d>>

\* format(n, '0<w>d'): decimal, zero-padded on the left to width w
RECURSIVE Pad(_, _)
Pad(s, w) == IF Len(s) >= w THEN s ELSE Pad("0" \o s, w)

\* strftime('%Y%m%d')
strftime(t) ==
    LET c == Civil(DateOf(t))
    IN  Pad(ToString(c[1]), 4) \o Pad(ToString(c[2]), 2) \o Pad(ToString(c[3]), 2)

\* f'user_{i:04d}'
UserId(i) == "user_" \o Pad(ToString(i), 4)

\* f"{user['user_id']}_{current_date.strftime('%Y%m%d')}_{session}"
SessionId(uid, current_date, s) ==
    uid \o "_" \o strftime(current_date) \o "_" \o ToString(s)

\* (a slip: the page number left out)
PageEventIdNoIndex(sid, p) == sid \o "_page"
\* f"{session_id}_{page_num}"
PageEventId(sid, p) == sid \o "_" \o ToString(p)

\* f"{session_id}_conversion"
ConversionEventId(sid) == sid \o "_conversion"

(***************************************************************************)
(* The segment table.                                                      *)
(***************************************************************************)
user_segments ==
    [power_user   |-> [daily_sessions |-> <<3, 8>>, session_duration |-> <<15, 45>>,
                       pages_per_session |-> <<10, 30>>],
     regular_user |-> [daily_sessions |-> <<1, 3>>, session_duration |-> <<5, 20>>,
                       pages_per_session |-> <<3, 10>>],
     casual_user  |-> [daily_sessions |-> <<0, 2>>, session_duration |-> <<2, 10>>,
                       pages_per_session |-> <<1, 5>>]]

\* the values TLC draws from random.randint(lo, hi): both ends of the range
randint(lo, hi) == {lo, hi}

\* np.random.choice(['power_user', 'regular_user', 'casual_user'], p=...)
SegmentChoice == {"casual_user", "regular_user", "power_user"}
\* np.random.choice(['US', 'UK', 'CA', 'DE', 'FR', 'JP', 'AU'], p=...)
CountryChoice == {"US", "JP"}
\* np.random.choice(['mobile', 'desktop', 'tablet'], p=...)
DeviceChoice == {"mobile", "desktop"}
\* np.random.choice(['product', 'search', 'account', 'checkout', 'support'], p=...)
\* (for a power user and for the others: the two calls differ in p alone)
CategoryChoice(segment) == {"product", "support"}
\* np.random.choice(['google', 'facebook', 'direct', 'email', 'other'], p=...)
ReferrerChoice == {"google", "direct"}

(***************************************************************************)
(* The random stream.  A draw is the tuple of values one step of the       *)
(* program takes from the generators.  The base value of every draw is the *)
(* value the base run takes; a run may leave it MaxVaried times.           *)
(***************************************************************************)
Replaying == pos <= Len(tape)

\* number of places where the draw d differs from the base draw b
Diff(d, b) == Cardinality({i \in DOMAIN d : d[i] # b[i]})

\* the draws open to a step whose range is S and whose base draw is b.  A
\* power user's sessions are at least thirty times a casual user's, so that
\* draw is charged as two.
Weight(d, b) ==
    Diff(d, b) + (IF pc = "profiles" /\ d[1] = "power_user" THEN 1 ELSE 0)

Allowed(S, b) ==
    IF Replaying THEN {tape[pos]}
    ELSE {d \in S : varied + Weight(d, b) <= MaxVaried}

Drawn(d, b) ==
    /\ tape' = IF Replaying THEN tape ELSE Append(tape, d)
    /\ pos' = pos + 1
    /\ varied' = varied + Weight(d, b)

NoDraw == UNCHANGED <<tape, pos, varied>>

(***************************************************************************)
(* generate_analytics_data                                                 *)
(***************************************************************************)
Init ==
    /\ now \in StartNows
    /\ num_users \in 0..MaxUsers
    /\ days \in 0..MaxDays
    /\ pc = "profiles"
    /\ users = <<>>
    /\ events = <<>>
    /\ start_date = 0
    /\ u = 0
    /\ day = 0
    /\ num_sessions = 0
    /\ session = 0
    /\ session_id = ""
    /\ session_start = 0
    /\ session_duration = 0
    /\ num_pages = 0
    /\ page_num = 0
    /\ df = [columns |-> {}, rows |-> <<>>]
    /\ daily_metrics = <<>>
    /\ session_metrics = <<>>
    /\ tape = <<>>
    /\ pos = 1
    /\ varied = 0
    /\ run = 1
    /\ first_events = <<>>

ProfileDraws == SegmentChoice \X randint(30, 365) \X CountryChoice \X DeviceChoice
ProfileBase == <<"casual_user", 30, "US", "mobile">>

\* for i in range(num_users): users.append({...})
GenerateProfile ==
    /\ pc = "profiles"
    /\ Len(users) < num_users
    /\ \E d \in Allowed(ProfileDraws, ProfileBase) :
          /\ users' = Append(users,
                [user_id          |-> UserId(Len(users)),
                 segment          |-> d[1],
                 acquisition_date |-> now - timedelta(d[2], 0, 0),
                 country          |-> d[3],
                 device_type      |-> d[4]])
          /\ Drawn(d, ProfileBase)
    /\ UNCHANGED <<now, num_users, days, pc, events, start_date, loopvars, tables,
                   run, first_events>>

\* events = []; start_date = datetime.now() - timedelta(days=days)
BeginEvents ==
    /\ pc = "profiles"
    /\ Len(users) = num_users
    /\ events' = <<>>
    /\ start_date' = now - timedelta(days, 0, 0)
    /\ u' = 0
    /\ pc' = "user"
    /\ NoDraw
    /\ UNCHANGED <<now, num_users, days, users, day, num_sessions, session,
                   session_id, session_start, session_duration, num_pages,
                   page_num, tables, run, first_events>>

user == users[u + 1]
user_behavior == user_segments[user.segment]
\* (a slip: the days counted from 1)
current_date_next_day == start_date + timedelta(day + 1, 0, 0)
\* current_date = start_date + timedelta(days=day)
current_date == start_date + timedelta(day, 0, 0)

\* for user in users: user_behavior = user_segments[user['segment']]
ForUser ==
    /\ pc = "user"
    /\ u < Len(users)
    /\ day' = 0
    /\ pc' = "day"
    /\ NoDraw
    /\ UNCHANGED <<now, num_users, days, users, events, start_date, u,
                   num_sessions, session, session_id, session_start,
                   session_duration, num_pages, page_num, tables, run,
                   first_events>>

\* the base run has the fewest sessions a day that are not none
SessionsBase(behavior) ==
    IF behavior.daily_sessions[1] = 0 THEN 1 ELSE behavior.daily_sessions[1]

\* the draws of random.randint(*user_behavior['daily_sessions']): both ends
\* of the range and the base value
DailySessions(behavior) ==
    randint(behavior.daily_sessions[1], behavior.daily_sessions[2])
        \cup {SessionsBase(behavior)}

\* for day in range(days): current_date = ...; num_sessions = random.randint(...)
ForDay ==
    /\ pc = "day"
    /\ day < days
    /\ \E d \in Allowed({<<n>> : n \in DailySessions(user_behavior)},
                        <<SessionsBase(user_behavior)>>) :
          /\ num_sessions' = d[1]
          /\ Drawn(d, <<SessionsBase(user_behavior)>>)
    /\ session' = 0
    /\ pc' = "session"
    /\ UNCHANGED <<now, num_users, days, users, events, start_date, u, day,
                   session_id, session_start, session_duration, num_pages,
                   page_num, tables, run, first_events>>

\* the day loop of a user is exhausted: the next user
EndUser ==
    /\ pc = "day"
    /\ day >= days
    /\ u' = u + 1
    /\ pc' = "user"
    /\ NoDraw
    /\ UNCHANGED <<now, num_users, days, users, events, start_date, day,
                   num_sessions, session, session_id, session_start,
                   session_duration, num_pages, page_num, tables, run,
                   first_events>>

\* the draws of random.randint(*user_behavior['session_duration'])
SessionDuration(behavior) ==
    randint(behavior.session_duration[1], behavior.session_duration[2])

\* (a slip: a session may have no page)
PagesPerSessionFromZero(behavior) == randint(0, behavior.pages_per_session[2])
\* the draws of random.randint(*user_behavior['pages_per_session'])
PagesPerSession(behavior) ==
    randint(behavior.pages_per_session[1], behavior.pages_per_session[2])

SessionDraws(behavior) ==
    randint(0, 23) \X randint(0, 59) \X SessionDuration(behavior)
        \X PagesPerSession(behavior)
SessionBase(behavior) ==
    <<23, 59, behavior.session_duration[1],
      CHOOSE n \in PagesPerSession(behavior) :
          \A k \in PagesPerSession(behavior) : n <= k>>

\* for session in range(num_sessions): session_id, session_start,
\* session_duration, num_pages
StartSession ==
    /\ pc = "session"
    /\ session < num_sessions
    /\ \E d \in Allowed(SessionDraws(user_behavior), SessionBase(user_behavior)) :
          /\ session_id' = SessionId(user.user_id, current_date, session)
          /\ session_start' = current_date + timedelta(0, d[1], d[2])
          /\ session_duration' = d[3]
          /\ num_pages' = d[4]
          /\ Drawn(d, SessionBase(user_behavior))
    /\ page_num' = 0
    /\ pc' = "page"
    /\ UNCHANGED <<now, num_users, days, users, events, start_date, u, day,
                   num_sessions, session, tables, run, first_events>>

\* the session loop of a day is exhausted: the next day
EndDay ==
    /\ pc = "session"
    /\ session >= num_sessions
    /\ day' = day + 1
    /\ pc' = "day"
    /\ NoDraw
    /\ UNCHANGED <<now, num_users, days, users, events, start_date, u,
                   num_sessions, session, session_id, session_start,
                   session_duration, num_pages, page_num, tables, run,
                   first_events>>

\* (a slip: events.insert(0, event))
EmitFirst(evs, e) == <<e>> \o evs
\* events.append(event)
Emit(evs, e) == Append(evs, e)

\* (a slip: the first page of every session bounces)
BounceFirstPage(p, n) == p = 0
\* 'bounce': page_num == 0 and num_pages == 1
Bounce(p, n) == p = 0 /\ n = 1

\* the page-view event dictionary
PageViewEvent(usr, sid, p, n, event_time, category, variant, top, referrer) ==
    [event_id      |-> PageEventId(sid, p),
     user_id       |-> usr.user_id,
     session_id    |-> sid,
     timestamp     |-> event_time,
     event_type    |-> "page_view",
     page_category |-> category,
     page_name     |-> category \o "_page_" \o ToString(variant),
     time_on_page  |-> top,
     bounce        |-> Bounce(p, n),
     device_type   |-> usr.device_type,
     country       |-> usr.country,
     referrer      |-> referrer,
     user_segment  |-> usr.segment]

PageDraws(segment, duration) ==
    randint(0, duration) \X CategoryChoice(segment) \X {1} \X randint(10, 300)
        \X ReferrerChoice
PageBase(duration) == <<0, "product", 1, 10, "google">>

\* for page_num in range(num_pages): ...; events.append(event)
PageView ==
    /\ pc = "page"
    /\ page_num < num_pages
    /\ \E d \in Allowed(PageDraws(user.segment, session_duration),
                        PageBase(session_duration)) :
          /\ events' = Emit(events,
                PageViewEvent(user, session_id, page_num, num_pages,
                              session_start + timedelta(0, 0, d[1]),
                              d[2], d[3], d[4], d[5]))
          /\ Drawn(d, PageBase(session_duration))
    /\ page_num' = page_num + 1
    /\ UNCHANGED <<now, num_users, days, pc, users, start_date, u, day,
                   num_sessions, session, session_id, session_start,
                   session_duration, num_pages, tables, run, first_events>>

\* 'referrer': events[-1]['referrer'] if events else 'direct'
LastReferrer(evs) == IF evs # <<>> THEN evs[Len(evs)].referrer ELSE "direct"

\* (a slip: the conversion does not take the device of the user)
ConversionEventFixedDevice(usr, sid, t, evs, revenue) ==
    [event_id      |-> ConversionEventId(sid),
     user_id       |-> usr.user_id,
     session_id    |-> sid,
     timestamp     |-> t,
     event_type    |-> "conversion",
     page_category |-> "checkout",
     page_name     |-> "order_complete",
     time_on_page  |-> 0,
     bounce        |-> FALSE,
     device_type   |-> "desktop",
     country       |-> usr.country,
     referrer      |-> LastReferrer(evs),
     user_segment  |-> usr.segment,
     revenue       |-> revenue]
\* the conversion event dictionary; revenue in cents
ConversionEvent(usr, sid, t, evs, revenue) ==
    [event_id      |-> ConversionEventId(sid),
     user_id       |-> usr.user_id,
     session_id    |-> sid,
     timestamp     |-> t,
     event_type    |-> "conversion",
     page_category |-> "checkout",
     page_name     |-> "order_complete",
     time_on_page  |-> 0,
     bounce        |-> FALSE,
     device_type   |-> usr.device_type,
     country       |-> usr.country,
     referrer      |-> LastReferrer(evs),
     user_segment  |-> usr.segment,
     revenue       |-> revenue]

\* random.random() in hundredths, then round(random.uniform(10, 500), 2) in cents
ConvertDraws == {<<50>>} \cup ({5} \X {1000, 50000})
ConvertBase == <<50, 1000>>

\* if random.random() < 0.1: events.append(conversion_event); the next session
Convert ==
    /\ pc = "page"
    /\ page_num >= num_pages
    /\ \E d \in Allowed(ConvertDraws, ConvertBase) :
          /\ \/ /\ d[1] < 10
                /\ events' = Emit(events,
                      ConversionEvent(user, session_id,
                          session_start + timedelta(0, 0, session_duration),
                          events, d[2]))
             \/ /\ d[1] >= 10
                /\ events' = events
          /\ Drawn(d, ConvertBase)
    /\ session' = session + 1
    /\ pc' = "session"
    /\ UNCHANGED <<now, num_users, days, users, start_date, u, day,
                   num_sessions, session_id, session_start, session_duration,
                   num_pages, page_num, tables, run, first_events>>

\* for user in users: the loop is exhausted; return pd.DataFrame(events)
Columns(evs) == UNION {DOMAIN evs[i] : i \in DOMAIN evs}

\* pd.DataFrame(events): the columns are the keys of the dictionaries, a key a
\* dictionary lacks reads NaN; no dictionary, no column
DataFrame(evs) ==
    LET columns == Columns(evs)
    IN  [columns |-> columns,
         rows    |-> [i \in DOMAIN evs |->
                        [c \in columns |->
                            IF c \in DOMAIN evs[i] THEN evs[i][c] ELSE "NaN"]]]

ReturnFrame ==
    /\ pc = "user"
    /\ u >= Len(users)
    /\ df' = DataFrame(events)
    /\ pc' = "fields"
    /\ NoDraw
    /\ UNCHANGED <<now, num_users, days, users, events, start_date, loopvars,
                   daily_metrics, session_metrics, run, first_events>>

Generate ==
    \/ GenerateProfile
    \/ BeginEvents
    \/ ForUser
    \/ ForDay
    \/ EndUser
    \/ StartSession
    \/ EndDay
    \/ PageView
    \/ Convert
    \/ ReturnFrame

(***************************************************************************)
(* The script after the call: calculated fields and the two aggregations.  *)
(***************************************************************************)
CalculatedFields(row) ==
    [date        |-> DateOf(row.timestamp),
     hour        |-> HourOf(row.timestamp),
     day_of_week |-> DayName(row.timestamp),
     is_weekend  |-> DayOfWeek(row.timestamp) \in {5, 6}] @@ row

\* df['date'] = df['timestamp'].dt.date ... df['is_weekend'] = ...
\* df['timestamp'] of a frame without that column raises KeyError
AddCalculatedFields ==
    /\ pc = "fields"
    /\ \/ /\ "timestamp" \notin df.columns
          /\ pc' = "error"
          /\ df' = df
       \/ /\ "timestamp" \in df.columns
          /\ df' = [columns |-> df.columns \cup
                                  {"date", "hour", "day_of_week", "is_weekend"},
                    rows    |-> [i \in DOMAIN df.rows |-> CalculatedFields(df.rows[i])]]
          /\ pc' = "daily"
    /\ NoDraw
    /\ UNCHANGED <<now, num_users, days, users, events, start_date, loopvars,
                   daily_metrics, session_metrics, run, first_events>>

RECURSIVE SumOf(_)
SumOf(s) == IF s = <<>> THEN 0 ELSE s[1] + SumOf(Tail(s))

\* the order of two user ids as strings: f'user_{i:04d}' orders as i does
\* (fewer than 10000 users)
UserRank(uid) == CHOOSE i \in 0..(Len(users) - 1) : UserId(i) = uid

\* the order of two session ids as strings: the user id, then the date, then
\* the session number (one digit: at most 8 sessions a day)
SessionRanks ==
    {<<k, SessionId(UserId(k[1]), start_date + timedelta(k[2], 0, 0), k[3])>> :
        k \in (0..(Len(users) - 1)) \X (0..(days - 1)) \X (0..7)}

LexLess(a, b) ==
    \E i \in DOMAIN a :
        /\ a[i] < b[i]
        /\ \A j \in 1..(i - 1) : a[j] = b[j]

\* the tuples of a set, smallest first
RECURSIVE Sorted(_)
Sorted(S) ==
    IF S = {} THEN <<>>
    ELSE LET m == CHOOSE x \in S : \A y \in S : x = y \/ LexLess(x, y)
         IN  <<m>> \o Sorted(S \ {m})

\* (a slip: only the page-views are counted)
CountPageViews(g, c) == Len(SelectSeq(g, LAMBDA r : r.event_type = "page_view"))
\* 'count': the values of a column that are not NaN
Count(g, c) == Len(SelectSeq(g, LAMBDA r : r[c] # "NaN"))

\* pd.Series.nunique
NUnique(g, c) == Cardinality({g[i][c] : i \in DOMAIN g})

\* 'first': the first value of a column (of strings) that is not NaN
First(g, c) == g[CHOOSE i \in DOMAIN g :
                     /\ g[i][c] # "NaN"
                     /\ \A j \in 1..(i - 1) : g[j][c] = "NaN"][c]

\* (a slip: 'last' for 'any')
AnyOfLast(g, c) == g[Len(g)][c]
\* 'any'
AnyOf(g, c) == \E i \in DOMAIN g : g[i][c]

\* 'min', 'max'
Min(g, c) == CHOOSE x \in {g[i][c] : i \in DOMAIN g} : \A i \in DOMAIN g : x <= g[i][c]
Max(g, c) == CHOOSE x \in {g[i][c] : i \in DOMAIN g} : \A i \in DOMAIN g : x >= g[i][c]

\* df.groupby(['date', 'user_id']).agg({...}).reset_index(), columns renamed
\* (the groups come in the order of their keys)
DailyKeys(rows) ==
    LET keys   == {<<rows[i].date, rows[i].user_id>> : i \in DOMAIN rows}
        sorted == Sorted({<<k[1], UserRank(k[2])>> : k \in keys})
    IN  [n \in DOMAIN sorted |-> <<sorted[n][1], UserId(sorted[n][2])>>]

DailyAgg(rows, keys) ==
        [n \in DOMAIN keys |->
            LET k == keys[n]
                g == SelectSeq(rows, LAMBDA r : <<r.date, r.user_id>> = k)
            IN  [date       |-> k[1],
                 user_id    |-> k[2],
                 sessions   |-> NUnique(g, "session_id"),
                 page_views |-> Count(g, "event_id"),
                 total_time |-> SumOf([i \in DOMAIN g |-> g[i].time_on_page])]]

DailyMetrics ==
    /\ pc = "daily"
    /\ \E keys \in {DailyKeys(df.rows)} :
          daily_metrics' = DailyAgg(df.rows, keys)
    /\ pc' = "sessions"
    /\ NoDraw
    /\ UNCHANGED <<now, num_users, days, users, events, start_date, loopvars,
                   df, session_metrics, run, first_events>>

\* df.groupby('session_id').agg({...}).reset_index(), columns renamed, and
\* session_duration = (session_end - session_start).dt.total_seconds() / 60
\* (the groups come in the order of their keys)
SessionKeys(rows) ==
    LET keys   == {rows[i].session_id : i \in DOMAIN rows}
        ranks  == {r \in SessionRanks : r[2] \in keys}
        sorted == Sorted({r[1] : r \in ranks})
    IN  [n \in DOMAIN sorted |-> (CHOOSE r \in ranks : r[1] = sorted[n])[2]]

SessionAgg(rows, keys) ==
        [n \in DOMAIN keys |->
            LET k == keys[n]
                g == SelectSeq(rows, LAMBDA r : r.session_id = k)
            IN  [session_id       |-> k,
                 user_id          |-> First(g, "user_id"),
                 session_start    |-> Min(g, "timestamp"),
                 session_end      |-> Max(g, "timestamp"),
                 page_views       |-> Count(g, "event_id"),
                 bounced          |-> AnyOf(g, "bounce"),
                 device_type      |-> First(g, "device_type"),
                 country          |-> First(g, "country"),
                 referrer         |-> First(g, "referrer"),
                 session_duration |->
                     ((Max(g, "timestamp") - Min(g, "timestamp")) * 60) \div 60]]

SessionMetrics ==
    /\ pc = "sessions"
    /\ \E keys \in {SessionKeys(df.rows)} :
          session_metrics' = SessionAgg(df.rows, keys)
    /\ pc' = "done"
    /\ NoDraw
    /\ UNCHANGED <<now, num_users, days, users, events, start_date, loopvars,
                   df, daily_metrics, run, first_events>>

Aggregate ==
    \/ AddCalculatedFields
    \/ DailyMetrics
    \/ SessionMetrics

Next == Generate \/ Aggregate

Spec == Init /\ [][Next]_vars

(***************************************************************************)
(* The generation repeated, to compare two runs of one seed.               *)
(***************************************************************************)
Fresh ==
    /\ pc' = "profiles"
    /\ users' = <<>>
    /\ events' = <<>>
    /\ start_date' = 0
    /\ u' = 0
    /\ day' = 0
    /\ num_sessions' = 0
    /\ session' = 0
    /\ session_id' = ""
    /\ session_start' = 0
    /\ session_duration' = 0
    /\ num_pages' = 0
    /\ page_num' = 0
    /\ df' = [columns |-> {}, rows |-> <<>>]
    /\ daily_metrics' = <<>>
    /\ session_metrics' = <<>>

\* the script is started once more: np.random.seed(42); random.seed(42) put
\* both generators back to the start of their stream; the clock has its own time
RunScriptAgain ==
    /\ run = 1
    /\ pc \in {"done", "error"}
    /\ first_events' = events
    /\ run' = 2
    /\ now' \in RestartNows
    /\ pos' = 1
    /\ varied' = 0
    /\ Fresh
    /\ UNCHANGED <<num_users, days, tape>>

\* generate_analytics_data is called once more by the same process: nothing
\* seeds the generators again, the stream goes on where the first call left it
CallAgain ==
    /\ run = 1
    /\ pc \in {"done", "error"}
    /\ first_events' = events
    /\ run' = 2
    /\ Fresh
    /\ UNCHANGED <<now, num_users, days, tape, pos, varied>>

NextRuns == Next \/ RunScriptAgain \/ CallAgain

SpecRuns == Init /\ [][NextRuns]_vars

(***************************************************************************)
(* The properties.  generate_analytics_data has returned when pc is        *)
(* "fields": events is then the sequence it produced.                      *)
(***************************************************************************)
Returned == pc = "fields"

E == DOMAIN events

SameSession(i, j) == events[i].session_id = events[j].session_id

IsPageView(i) == events[i].event_type = "page_view"

IsConversion(i) == events[i].event_type = "conversion"

\* the page-view events of the session of event i
PageViewsOf(i) == {j \in E : SameSession(i, j) /\ IsPageView(j)}

\* the number of events of its session that precede event i
PositionOf(i) == Cardinality({j \in E : j < i /\ SameSession(i, j)})

\* C1: in the sequence produced, the bounce flag of an event is true exactly
\* when the event is the one and only page-view of its session; it is false
\* on every page-view of a session with more page-views and on every
\* conversion.
C1_Bounce ==
    Returned =>
        \A i \in E :
            events[i].bounce <=> (IsPageView(i) /\ Cardinality(PageViewsOf(i)) = 1)

\* a sequence with a bouncing session and with a page-view that does not bounce
C1_Witness ==
    /\ Returned
    /\ \E i \in E : events[i].bounce
    /\ \E i \in E : IsPageView(i) /\ ~events[i].bounce

\* C2: two generations with the same seed, num_users and days produce the
\* same events, whenever they are started and whether or not the generator
\* was called before in the process.
C2_Determinism ==
    (run = 2 /\ Returned) => events = first_events

\* C3: with num_users = 0 or days = 0 the script runs to its end without an
\* error, and the three tables are empty.
C3_EmptyRun ==
    (num_users = 0 \/ days = 0) =>
        /\ pc # "error"
        /\ pc = "done" =>
              /\ df.rows = <<>>
              /\ daily_metrics = <<>>
              /\ session_metrics = <<>>

\* the events of a calendar date and a user
EventsOn(date, uid) ==
    {i \in E : DateOf(events[i].timestamp) = date /\ events[i].user_id = uid}

RECURSIVE TimeOnPage(_)
TimeOnPage(S) ==
    IF S = {} THEN 0
    ELSE LET i == CHOOSE x \in S : TRUE
         IN  events[i].time_on_page + TimeOnPage(S \ {i})

\* C4: daily_metrics has one row for every (calendar date, user) that has an
\* event and no other row; the row counts the events of that date and user
\* (conversions too) in page_views, their distinct session ids in sessions
\* and sums their time_on_page in total_time.
C4_DailyMetrics ==
    pc = "sessions" =>
        /\ \A i \in E :
              Cardinality({n \in DOMAIN daily_metrics :
                  /\ daily_metrics[n].date = DateOf(events[i].timestamp)
                  /\ daily_metrics[n].user_id = events[i].user_id}) = 1
        /\ \A n \in DOMAIN daily_metrics :
              LET row == daily_metrics[n]
                  g   == EventsOn(row.date, row.user_id)
              IN  /\ g # {}
                  /\ row.page_views = Cardinality(g)
                  /\ row.sessions = Cardinality({events[i].session_id : i \in g})
                  /\ row.total_time = TimeOnPage(g)

\* a row that counts a conversion among its page_views, and a second row
C4_Witness ==
    /\ pc = "sessions"
    /\ Len(daily_metrics) >= 2
    /\ \E n \in DOMAIN daily_metrics :
          \E i \in EventsOn(daily_metrics[n].date, daily_metrics[n].user_id) :
              IsConversion(i) /\ daily_metrics[n].page_views >= 2

\* C5: no two events of the sequence have the same event_id, and the
\* event_id is the session id followed by the position of the page-view in
\* its session, or by "conversion".
C5_EventIds ==
    Returned =>
        /\ \A i, j \in E : i # j => events[i].event_id # events[j].event_id
        /\ \A i \in E :
              events[i].event_id =
                  events[i].session_id \o "_" \o
                      (IF IsPageView(i) THEN ToString(PositionOf(i)) ELSE "conversion")

\* two page-views of one session, and events of two users
C5_Witness ==
    /\ Returned
    /\ \E i, j \in E : i # j /\ SameSession(i, j) /\ IsPageView(i) /\ IsPageView(j)
    /\ \E i, j \in E : events[i].user_id # events[j].user_id

\* C6: the events of a session carry one user_id, one device_type and one
\* country, those of a user of the run, and the events have at most
\* num_users distinct user ids.
C6_SessionOwner ==
    Returned =>
        /\ \A i, j \in E :
              SameSession(i, j) =>
                  /\ events[i].user_id = events[j].user_id
                  /\ events[i].device_type = events[j].device_type
                  /\ events[i].country = events[j].country
        /\ \A i \in E :
              \E n \in DOMAIN users :
                  /\ users[n].user_id = events[i].user_id
                  /\ users[n].device_type = events[i].device_type
                  /\ users[n].country = events[i].country
        /\ Cardinality({events[i].user_id : i \in E}) <= num_users

\* a session of a page-view and a conversion, and the events of two users
\* whose device or country differ
C6_Witness ==
    /\ Returned
    /\ \E i, j \in E : SameSession(i, j) /\ IsPageView(i) /\ IsConversion(j)
    /\ \E i, j \in E : events[i].user_id # events[j].user_id

SessionPlaces ==
    LET ranks == SessionRanks
    IN  [i \in E |-> (CHOOSE r \in ranks : r[2] = events[i].session_id)[1]]

\* C8: events come in generation order: where the session changes in the
\* sequence it moves on by user, then day, then session number; the events
\* of a session are adjacent (each but the last is followed by one of the
\* same session); its page-views come by rising page number; a session has at
\* most one conversion, which comes after its page-views.
C8_Order ==
    Returned =>
        /\ LET place == SessionPlaces
           IN  \A i \in E :
                  (i < Len(events) /\ ~SameSession(i, i + 1)) =>
                      LexLess(place[i], place[i + 1])
        /\ \A i, k \in E :
              (i < k /\ SameSession(i, k)) => SameSession(i, i + 1)
        /\ \A i \in E :
              IsPageView(i) =>
                  events[i].event_id =
                      events[i].session_id \o "_" \o
                          ToString(Cardinality({j \in PageViewsOf(i) : j < i}))
        /\ \A i \in E :
              IsConversion(i) =>
                  \A j \in E : (SameSession(i, j) /\ j # i) => (j < i /\ IsPageView(j))

\* a session of a page-view and then a conversion, before another session
C8_Witness ==
    /\ Returned
    /\ \E i \in E :
          /\ IsConversion(i)
          /\ i > 1
          /\ IsPageView(i - 1)
          /\ SameSession(i, i - 1)
          /\ i < Len(events)

EventsOf(sid) == {i \in E : events[i].session_id = sid}

FirstOf(S) == CHOOSE i \in S : \A j \in S : i <= j

====
